---- MODULE Spec2Model ----
(***************************************************************************)
(* State-machine model of the intrusion detection engine:                  *)
(*   scripts/network_monitor.py  (class NetworkMonitor)                    *)
(*   scripts/anomaly_detector.py (class AnomalyDetector)                   *)
(*   scripts/ids_api_server.py   (module globals, worker, handlers)        *)
(* The NetworkMonitor instance is the record nm, the AnomalyDetector       *)
(* instance the record ad, the globals of the API server the record api,   *)
(* the thread that reads frames and calls analyze_packet the record rx;    *)
(* every method is a pure operator from the instance (and its arguments,   *)
(* and the clock reading) to the instance after the call, and one action   *)
(* applies it.                                                             *)
(*                                                                         *)
(* Time is counted in ticks, TicksPerSec ticks to the second.  The clock   *)
(* readings taken inside one call (time.time(), datetime.now()) are one    *)
(* instant: a call is one step.                                            *)
(***************************************************************************)
EXTENDS Integers, Sequences, FiniteSets, TLC

VARIABLES nm, now, ad, api, rx

vars == <<nm, now, ad, api, rx>>

\* the state outside the NetworkMonitor instance and the clock
serverVars == <<ad, api, rx>>

----------------------------------------------------------------------------
(* Bounds of the model *)

\* clock resolution: ticks per second
TicksPerSec == 2

\* destination ports a packet may carry: 1..NumPorts
NumPorts == 2

\* packets handed to analyze_packet in one run
MaxPackets == 3

\* configured port_scan_threshold of the run
PortScanThreshold == 1

\* configured ddos_threshold of the run
DdosThreshold == 1

\* anomaly-detector ticks at whole seconds after the baseline period has
\* elapsed
ExtraTicks == 1

\* worker threads the server starts in one run
MaxWorkers == 2

\* entries of one batch of mock traffic
BatchSize == 2

\* the ticks of a run over the ends of the 60 s window
MaxTicks == 3

----------------------------------------------------------------------------
(* Program constants *)

\* deque(maxlen=1000)
TRAFFIC_HISTORY_MAXLEN == 1000

\* struct.unpack('!BBHHHBBH4s4s', ...) needs 20 bytes
IP_HEADER_LEN == 20

\* struct.unpack('!HHLLBBHHH', ...) needs 20 bytes
TCP_HEADER_LEN == 20

\* ip_info['protocol'] == 6
PROTO_TCP == 6

\* current_time - t < 60
CONNECTION_WINDOW_SECONDS == 60

\* current_time - t < 1.0
DDOS_WINDOW_SECONDS == 1

\* deque(maxlen=100): packet_rates, connection_counts, port_distributions
SERIES_MAXLEN == 100

\* if len(self.ip_frequencies[ip]) > 100: popleft()
IP_SERIES_MAXLEN == 100

\* self.baseline_period = 3600
BASELINE_PERIOD_SECONDS == 3600

\* if len(self.packet_rates) < 50: return False
BASELINE_MIN_SAMPLES == 50

\* if len(counts) < 10: continue
IP_MIN_SAMPLES == 10

\* current_time - entry.get('timestamp', 0) < 60
METRICS_WINDOW_SECONDS == 60

ConnectionWindow == CONNECTION_WINDOW_SECONDS * TicksPerSec

BaselinePeriod == BASELINE_PERIOD_SECONDS * TicksPerSec

MetricsWindow == METRICS_WINDOW_SECONDS * TicksPerSec

DdosWindow == DDOS_WINDOW_SECONDS * TicksPerSec

----------------------------------------------------------------------------
(* Inputs *)

IPs == {"10.0.0.9", "203.0.113.45"}

Ports == 1..NumPorts

\* the instants at which the clock is read: both sides of the 1 s and of
\* the 60 s window
Times == {0, 1, DdosWindow, ConnectionWindow - 1, ConnectionWindow, ConnectionWindow + 1}

Packet(len, proto, src, port) ==
    [length |-> len, version |-> 4, ihl |-> 5, protocol |-> proto,
     source_ip |-> src, dest_ip |-> "10.0.0.1", dest_port |-> port, flags |-> 2]

\* a frame shorter than an IP header
TruncatedPackets == {Packet(IP_HEADER_LEN - 1, PROTO_TCP, src, 0) : src \in IPs}

\* a UDP datagram (protocol 17)
OtherPackets == {Packet(IP_HEADER_LEN + 8, 17, src, 0) : src \in IPs}

\* protocol 6 with the TCP header cut short
ShortTcpPackets == {Packet(IP_HEADER_LEN + TCP_HEADER_LEN - 1, PROTO_TCP, src, 0) : src \in IPs}

TcpPackets == {Packet(IP_HEADER_LEN + TCP_HEADER_LEN, PROTO_TCP, src, port) : src \in IPs, port \in Ports}

Packets == TruncatedPackets \cup OtherPackets \cup ShortTcpPackets \cup TcpPackets

\* a frame of full length whose version nibble says IPv6
NotIPv4Packets == {[p EXCEPT !.version = 6] : p \in TcpPackets}

\* a datagram whose IHL says 4 words: less than the 20-byte minimum
ShortIhlPackets == {[p EXCEPT !.ihl = 4] : p \in OtherPackets}

MalformedPackets == NotIPv4Packets \cup ShortIhlPackets

----------------------------------------------------------------------------
(* Python containers *)

\* {} : a dict with no key
EmptyDict == [k \in {} |-> 0]

\* d[k] = v
Put(d, k, v) == [x \in (DOMAIN d) \cup {k} |-> IF x = k THEN v ELSE d[x]]

\* d[k] of a defaultdict: the default when the key is missing
Get(d, k, default) == IF k \in DOMAIN d THEN d[k] ELSE default

\* [t for t in s if current_time - t < window]
Recent(s, current_time, window) ==
    LET Keep(t) == current_time - t < window IN SelectSeq(s, Keep)

\* deque.append with maxlen: the oldest entry leaves when the deque is full
DequeAppend(s, x, maxlen) ==
    IF Len(s) >= maxlen THEN Append(Tail(s), x) ELSE Append(s, x)

RECURSIVE SortedSeq(_)
\* list(set) of small integers: ascending
SortedSeq(S) ==
    IF S = {} THEN <<>>
    ELSE LET x == CHOOSE y \in S : \A z \in S : y <= z
         IN <<x>> \o SortedSeq(S \ {x})

Range(s) == {s[i] : i \in DOMAIN s}

\* int(current_time)
UnixSeconds(t) == t \div TicksPerSec

----------------------------------------------------------------------------
(* NetworkMonitor *)

NewMonitor(auto_block) ==
    [packet_count |-> 0,
     suspicious_packets |-> 0,
     connection_tracker |-> EmptyDict,
     port_scan_tracker |-> EmptyDict,
     traffic_history |-> <<>>,
     blocked_ips |-> {},
     whitelisted_ips |-> {},
     alerts |-> <<>>,
     ip_investigation_data |-> EmptyDict,
     config |-> [port_scan_threshold |-> PortScanThreshold,
                 ddos_threshold |-> DdosThreshold,
                 monitoring_enabled |-> TRUE,
                 auto_block |-> auto_block]]

ParseIpHeader(packet) ==
    IF packet.length < IP_HEADER_LEN
    THEN [ok |-> FALSE]
    ELSE [ok |-> TRUE,
          version |-> packet.version,
          header_length |-> packet.ihl * 4,
          protocol |-> packet.protocol,
          source_ip |-> packet.source_ip,
          destination_ip |-> packet.dest_ip]

ParseTcpHeader(packet, ip_header_length) ==
    IF packet.length - ip_header_length < TCP_HEADER_LEN
    THEN [ok |-> FALSE]
    ELSE [ok |-> TRUE,
          destination_port |-> packet.dest_port,
          flags |-> packet.flags]

NewInvestigation(current_time, ports) ==
    [first_seen |-> current_time,
     activities |-> <<>>,
     ports_accessed |-> ports,
     classification |-> "unknown",
     notes |-> ""]

Activity(current_time, action, severity) ==
    [timestamp |-> current_time, action |-> action, severity |-> severity]

Alert(id, title, source_ip, current_time) ==
    [id |-> id, type |-> "high", title |-> title, timestamp |-> current_time,
     source_ip |-> source_ip, destination_ip |-> "multiple", status |-> "active"]

\* `ip in self.whitelisted_ips`, as a membership test that never succeeds
\* (the set holding values of another type than the address tested)
WhitelistedNever(m, ip) == FALSE

\* ip in self.whitelisted_ips
Whitelisted(m, ip) == ip \in m.whitelisted_ips

\* the port-scan condition with >= for >
ScanExceedsOrMeets(ports, threshold) == Cardinality(ports) >= threshold

\* len(self.port_scan_tracker[source_ip]) > self.config['port_scan_threshold']
ScanExceeds(ports, threshold) == Cardinality(ports) > threshold

\* the one-second count with <= for <
RecentPacketsInclusive(times, current_time) == Recent(times, current_time, DdosWindow + 1)

\* [t for t in self.connection_tracker[source_ip] if current_time - t < 1.0]
RecentPackets(times, current_time) == Recent(times, current_time, DdosWindow)

\* the auto-block policy left out
AutoBlockNever(m, source_ip) == m.blocked_ips

\* if self.config['auto_block'] and source_ip not in self.whitelisted_ips:
\*     self.blocked_ips.add(source_ip)
AutoBlock(m, source_ip) ==
    IF m.config.auto_block /\ ~Whitelisted(m, source_ip)
    THEN m.blocked_ips \cup {source_ip}
    ELSE m.blocked_ips

DetectPortScan(m, source_ip, dest_port, current_time) ==
    IF Whitelisted(m, source_ip) THEN m
    ELSE LET ports == Get(m.port_scan_tracker, source_ip, {}) \cup {dest_port}
             m1 == [m EXCEPT !.port_scan_tracker = Put(@, source_ip, ports)]
             alert == Alert(<<"ps", UnixSeconds(current_time)>>, "Port Scan Detected",
                            source_ip, current_time)
             data == Get(m1.ip_investigation_data, source_ip,
                         NewInvestigation(current_time, SortedSeq(ports)))
             logged == [data EXCEPT !.activities =
                           Append(@, Activity(current_time, "Port Scan Detected", "high"))]
         IN IF ScanExceeds(ports, m1.config.port_scan_threshold)
            THEN [m1 EXCEPT
                    !.alerts = Append(@, alert),
                    !.suspicious_packets = @ + 1,
                    !.ip_investigation_data = Put(@, source_ip, logged),
                    !.blocked_ips = AutoBlock(m1, source_ip)]
            ELSE m1

DetectDdos(m, source_ip, current_time) ==
    IF Whitelisted(m, source_ip) THEN m
    ELSE LET times == Get(m.connection_tracker, source_ip, <<>>)
             m1 == [m EXCEPT !.connection_tracker = Put(@, source_ip, times)]
             recent_packets == RecentPackets(times, current_time)
             alert == Alert(<<"ddos", UnixSeconds(current_time)>>, "DDoS Attack Detected",
                            source_ip, current_time)
             data == Get(m1.ip_investigation_data, source_ip,
                         NewInvestigation(current_time, <<>>))
             logged == [data EXCEPT !.activities =
                           Append(@, Activity(current_time, "DDoS Attack Detected", "high"))]
         IN IF Len(recent_packets) > m1.config.ddos_threshold
            THEN [m1 EXCEPT
                    !.alerts = Append(@, alert),
                    !.suspicious_packets = @ + 1,
                    !.ip_investigation_data = Put(@, source_ip, logged),
                    !.blocked_ips = AutoBlock(m1, source_ip)]
            ELSE m1

\* the end of analyze_packet: the traffic entry and the dossier's port list
LogTraffic(m, source_ip, dest_ip, dest_port, flags, current_time) ==
    LET entry == [timestamp |-> current_time, source_ip |-> source_ip,
                  dest_ip |-> dest_ip, dest_port |-> dest_port,
                  protocol |-> "TCP", flags |-> flags]
        m1 == [m EXCEPT !.traffic_history = DequeAppend(@, entry, TRAFFIC_HISTORY_MAXLEN)]
    IN IF source_ip \in DOMAIN m1.ip_investigation_data
          /\ dest_port \notin Range(m1.ip_investigation_data[source_ip].ports_accessed)
       THEN [m1 EXCEPT !.ip_investigation_data[source_ip].ports_accessed = Append(@, dest_port)]
       ELSE m1

\* analyze_packet without its test of the blocklist
AnalyzePacketNoBlocklist(m, packet, current_time) ==
    LET m1 == [m EXCEPT !.packet_count = @ + 1]
        ip_info == ParseIpHeader(packet)
    IN IF ~ip_info.ok THEN m1
       ELSE LET source_ip == ip_info.source_ip
                times == Append(Get(m1.connection_tracker, source_ip, <<>>), current_time)
            IN IF Whitelisted(m1, source_ip)
               THEN [m1 EXCEPT !.connection_tracker = Put(@, source_ip, times)]
               ELSE LET m2 == [m1 EXCEPT !.connection_tracker =
                                  Put(@, source_ip, Recent(times, current_time, ConnectionWindow))]
                        tcp_info == ParseTcpHeader(packet, ip_info.header_length)
                    IN IF ip_info.protocol = PROTO_TCP /\ tcp_info.ok
                       THEN LET dest_port == tcp_info.destination_port
                                m3 == DetectPortScan(m2, source_ip, dest_port, current_time)
                                m4 == DetectDdos(m3, source_ip, current_time)
                            IN LogTraffic(m4, source_ip, ip_info.destination_ip,
                                          dest_port, tcp_info.flags, current_time)
                       ELSE m2

\* analyze_packet with the arrival time kept for TCP packets alone
AnalyzePacketTcpTimes(m, packet, current_time) ==
    LET m1 == [m EXCEPT !.packet_count = @ + 1]
        ip_info == ParseIpHeader(packet)
    IN IF ~ip_info.ok THEN m1
       ELSE LET source_ip == ip_info.source_ip
                kept == Get(m1.connection_tracker, source_ip, <<>>)
                times == IF ip_info.protocol = PROTO_TCP THEN Append(kept, current_time)
                         ELSE kept
            IN IF source_ip \in m1.blocked_ips THEN m1
               ELSE IF Whitelisted(m1, source_ip)
               THEN [m1 EXCEPT !.connection_tracker = Put(@, source_ip, times)]
               ELSE LET m2 == [m1 EXCEPT !.connection_tracker =
                                  Put(@, source_ip, Recent(times, current_time, ConnectionWindow))]
                        tcp_info == ParseTcpHeader(packet, ip_info.header_length)
                    IN IF ip_info.protocol = PROTO_TCP /\ tcp_info.ok
                       THEN LET dest_port == tcp_info.destination_port
                                m3 == DetectPortScan(m2, source_ip, dest_port, current_time)
                                m4 == DetectDdos(m3, source_ip, current_time)
                            IN LogTraffic(m4, source_ip, ip_info.destination_ip,
                                          dest_port, tcp_info.flags, current_time)
                       ELSE m2

AnalyzePacket(m, packet, current_time) ==
    LET m1 == [m EXCEPT !.packet_count = @ + 1]
        ip_info == ParseIpHeader(packet)
    IN IF ~ip_info.ok THEN m1
       ELSE LET source_ip == ip_info.source_ip
                times == Append(Get(m1.connection_tracker, source_ip, <<>>), current_time)
            IN IF source_ip \in m1.blocked_ips THEN m1
               ELSE IF Whitelisted(m1, source_ip)
               THEN [m1 EXCEPT !.connection_tracker = Put(@, source_ip, times)]
               ELSE LET m2 == [m1 EXCEPT !.connection_tracker =
                                  Put(@, source_ip, Recent(times, current_time, ConnectionWindow))]
                        tcp_info == ParseTcpHeader(packet, ip_info.header_length)
                    IN IF ip_info.protocol = PROTO_TCP /\ tcp_info.ok
                       THEN LET dest_port == tcp_info.destination_port
                                m3 == DetectPortScan(m2, source_ip, dest_port, current_time)
                                m4 == DetectDdos(m3, source_ip, current_time)
                            IN LogTraffic(m4, source_ip, ip_info.destination_ip,
                                          dest_port, tcp_info.flags, current_time)
                       ELSE m2

\* the update of the dossier made by block_ip and whitelist_ip
Classify(m, ip, classification, action, current_time) ==
    IF ip \in DOMAIN m.ip_investigation_data
    THEN [m EXCEPT !.ip_investigation_data[ip] =
             [@ EXCEPT !.classification = classification,
                       !.activities = Append(@, Activity(current_time, action, "info"))]]
    ELSE m

\* block_ip without its test of the allowlist
BlockIpUnchecked(m, ip, current_time) ==
    IF ip \notin m.blocked_ips
    THEN [m |-> Classify([m EXCEPT !.blocked_ips = @ \cup {ip}],
                         ip, "malicious", "IP Blocked", current_time),
          ret |-> TRUE]
    ELSE [m |-> m, ret |-> FALSE]

\* block_ip updating the dossier on every accepted call, blocked already or not
BlockIpAlwaysLogs(m, ip, current_time) ==
    IF Whitelisted(m, ip) THEN [m |-> m, ret |-> FALSE]
    ELSE [m |-> Classify([m EXCEPT !.blocked_ips = @ \cup {ip}],
                         ip, "malicious", "IP Blocked", current_time),
          ret |-> ip \notin m.blocked_ips]

\* the instance after block_ip(ip), and the value returned
BlockIp(m, ip, current_time) ==
    IF Whitelisted(m, ip) THEN [m |-> m, ret |-> FALSE]
    ELSE IF ip \notin m.blocked_ips
    THEN [m |-> Classify([m EXCEPT !.blocked_ips = @ \cup {ip}],
                         ip, "malicious", "IP Blocked", current_time),
          ret |-> TRUE]
    ELSE [m |-> m, ret |-> FALSE]

\* whitelist_ip leaving the blocklist as it is
WhitelistIpKeepsBlock(m, ip, current_time) ==
    IF ~Whitelisted(m, ip)
    THEN [m |-> Classify([m EXCEPT !.whitelisted_ips = @ \cup {ip}],
                         ip, "benign", "IP Whitelisted", current_time),
          ret |-> TRUE]
    ELSE [m |-> m, ret |-> FALSE]

WhitelistIpKeepsClassification(m, ip, current_time) ==
    LET m1 == [m EXCEPT !.blocked_ips = @ \ {ip}]
    IN IF ~Whitelisted(m1, ip)
       THEN [m |-> [m1 EXCEPT !.whitelisted_ips = @ \cup {ip}], ret |-> TRUE]
       ELSE [m |-> m1, ret |-> FALSE]

\* the instance after whitelist_ip(ip), and the value returned
WhitelistIp(m, ip, current_time) ==
    LET m1 == [m EXCEPT !.blocked_ips = @ \ {ip}]
    IN IF ~Whitelisted(m1, ip)
       THEN [m |-> Classify([m1 EXCEPT !.whitelisted_ips = @ \cup {ip}],
                            ip, "benign", "IP Whitelisted", current_time),
             ret |-> TRUE]
       ELSE [m |-> m1, ret |-> FALSE]

\* the instance after get_ip_investigation_data(ip), and the value
\* returned: found is FALSE where the method returns None; the dossier
\* returned is the stored one, with status and last_seen written into it
GetIpInvestigationData(m, ip, current_time) ==
    IF ip \in DOMAIN m.ip_investigation_data
    THEN LET status == IF ip \in m.blocked_ips THEN "blocked"
                       ELSE IF ip \in m.whitelisted_ips THEN "whitelisted"
                       ELSE "monitoring"
             stored == m.ip_investigation_data[ip]
             data == [k \in (DOMAIN stored) \cup {"status", "last_seen"} |->
                        IF k = "status" THEN status
                        ELSE IF k = "last_seen" THEN current_time
                        ELSE stored[k]]
         IN [m |-> [m EXCEPT !.ip_investigation_data = Put(@, ip, data)],
             found |-> TRUE, data |-> data]
    ELSE [m |-> m, found |-> FALSE, data |-> EmptyDict]

UpdateIpNotes(m, ip, notes, current_time) ==
    LET data == Get(m.ip_investigation_data, ip, NewInvestigation(current_time, <<>>))
    IN [m EXCEPT !.ip_investigation_data = Put(@, ip, [data EXCEPT !.notes = notes])]

----------------------------------------------------------------------------
(* AnomalyDetector *)

(* statistics.mean and statistics.stdev of a series are exact functions of   *)
(* its length n, its sum and its sum of squares:                             *)
(*     mean = sum / n      stdev^2 = (n * sumsq - sum^2) / (n * (n - 1))     *)
(* A mean/std pair is kept as these three integers, and each comparison of   *)
(* the code is the same comparison cleared of denominators and roots.  A     *)
(* multiplier m is the pair <<num, den>> with m = num / den.                 *)

RECURSIVE SumRange(_, _, _)
\* s[lo] + ... + s[hi], halving the range
SumRange(s, lo, hi) ==
    IF lo > hi THEN 0
    ELSE IF lo = hi THEN s[lo]
    ELSE LET mid == (lo + hi) \div 2
         IN SumRange(s, lo, mid) + SumRange(s, mid + 1, hi)

SumSeq(s) == SumRange(s, 1, Len(s))

SumSqSeq(s) == SumRange([i \in DOMAIN s |-> s[i] * s[i]], 1, Len(s))

\* statistics.mean(s), statistics.stdev(s) if len(s) > 1 else 0
Stats(s) == [n |-> Len(s), sum |-> SumSeq(s), sumsq |-> SumSqSeq(s)]

NoStats == Stats(<<>>)

\* n * (n - 1) * stdev^2
Spread(st) == st.n * st.sumsq - st.sum * st.sum

\* std == 0
StdIsZero(st) == st.n <= 1 \/ Spread(st) = 0

\* abs(current - mean) / std > threshold, for std > 0
ZScoreAbove(current, st, threshold) ==
    LET dev == current * st.n - st.sum
    IN dev * dev * (st.n - 1) * threshold[2] * threshold[2]
          > threshold[1] * threshold[1] * st.n * Spread(st)

\* threshold * factor
Times2(threshold, factor) == <<threshold[1] * factor[1], threshold[2] * factor[2]>>

NewDetector(start_time) ==
    [baseline_established |-> FALSE,
     baseline_period |-> BaselinePeriod,
     start_time |-> start_time,
     alerts |-> <<>>,
     packet_rates |-> <<>>,
     connection_counts |-> <<>>,
     port_distributions |-> <<>>,
     ip_frequencies |-> EmptyDict,
     thresholds |-> [packet_rate_std_multiplier |-> <<3, 1>>,
                     connection_count_std_multiplier |-> <<5, 2>>,
                     ip_frequency_std_multiplier |-> <<2, 1>>],
     current_metrics |-> [packet_rate |-> 0,
                          connection_count |-> 0,
                          unique_ports |-> {},
                          ip_counts |-> EmptyDict],
     baseline |-> [packet_rate |-> NoStats,
                   connection_count |-> NoStats,
                   port_count |-> NoStats]]

\* the entries of traffic_data the metrics count
RecentTraffic(traffic_data, current_time) ==
    LET Keep(entry) == current_time - entry.timestamp < MetricsWindow
    IN SelectSeq(traffic_data, Keep)

\* self.ip_frequencies[ip].append(count) alone
IpSeriesAppendUnbounded(s, count) == Append(s, count)

\* self.ip_frequencies[ip].append(count), popleft() above 100 entries
IpSeriesAppend(s, count) ==
    LET appended == Append(s, count)
    IN IF Len(appended) > IP_SERIES_MAXLEN THEN Tail(appended) ELSE appended

UpdateMetrics(d, traffic_data, current_time) ==
    LET recent_traffic == RecentTraffic(traffic_data, current_time)
        sources == {recent_traffic[i].source_ip : i \in DOMAIN recent_traffic}
        metrics ==
            [packet_rate |-> Len(recent_traffic),
             connection_count |-> Len(recent_traffic),
             unique_ports |-> {recent_traffic[i].dest_port : i \in DOMAIN recent_traffic},
             ip_counts |-> [ip \in sources |->
                              Cardinality({i \in DOMAIN recent_traffic :
                                              recent_traffic[i].source_ip = ip})]]
    IN [d EXCEPT
          !.current_metrics = metrics,
          !.packet_rates = DequeAppend(@, metrics.packet_rate, SERIES_MAXLEN),
          !.connection_counts = DequeAppend(@, metrics.connection_count, SERIES_MAXLEN),
          !.port_distributions =
              DequeAppend(@, Cardinality(metrics.unique_ports), SERIES_MAXLEN),
          !.ip_frequencies =
              [ip \in sources |->
                  IpSeriesAppend(Get(@, ip, <<>>), metrics.ip_counts[ip])] @@ @]

\* establish_baseline whatever the clock and the number of samples
BaselineReadyAlways(d, current_time) == TRUE

\* establish_baseline goes on to compute the baseline
BaselineReady(d, current_time) ==
    /\ ~(current_time - d.start_time < d.baseline_period)
    /\ ~(Len(d.packet_rates) < BASELINE_MIN_SAMPLES)

EstablishBaseline(d, current_time) ==
    IF ~BaselineReady(d, current_time) THEN d
    ELSE [d EXCEPT
            !.baseline = [packet_rate |-> Stats(d.packet_rates),
                          connection_count |-> Stats(d.connection_counts),
                          port_count |-> Stats(d.port_distributions)],
            !.baseline_established = TRUE]

\* the z-score test of the four detectors without the guard on std
FiresUnguarded(current, st, threshold) == ZScoreAbove(current, st, threshold)

\* the z-score test of the four detectors against half the multiplier
FiresAtHalf(current, st, threshold) ==
    ~StdIsZero(st) /\ ZScoreAbove(current, st, Times2(threshold, <<1, 2>>))

\* if std == 0: return None; z_score = ...; if z_score > threshold
Fires(current, st, threshold) ==
    ~StdIsZero(st) /\ ZScoreAbove(current, st, threshold)

\* the record a detector returns; its z_score and expected_range, which
\* restate mean and std as text, are left out
Detection(type, severity, current_value, ip_address) ==
    [type |-> type, severity |-> severity,
     current_value |-> current_value, ip_address |-> ip_address]

\* each detector returns the list of its detections: None is the empty list
DetectPacketRateAnomaly(d) ==
    LET current_rate == d.current_metrics.packet_rate
        threshold == d.thresholds.packet_rate_std_multiplier
    IN IF ~d.baseline_established THEN <<>>
       ELSE IF Fires(current_rate, d.baseline.packet_rate, threshold)
       THEN <<Detection("packet_rate_anomaly",
                        IF ZScoreAbove(current_rate, d.baseline.packet_rate,
                                       Times2(threshold, <<3, 2>>))
                        THEN "high" ELSE "medium",
                        current_rate, "multiple")>>
       ELSE <<>>

DetectConnectionAnomaly(d) ==
    LET current_count == d.current_metrics.connection_count
        threshold == d.thresholds.connection_count_std_multiplier
    IN IF ~d.baseline_established THEN <<>>
       ELSE IF Fires(current_count, d.baseline.connection_count, threshold)
       THEN <<Detection("connection_anomaly",
                        IF ZScoreAbove(current_count, d.baseline.connection_count,
                                       Times2(threshold, <<3, 2>>))
                        THEN "high" ELSE "medium",
                        current_count, "multiple")>>
       ELSE <<>>

\* threshold = self.thresholds['connection_count_std_multiplier']
PortThreshold(d) == d.thresholds.connection_count_std_multiplier

DetectPortAnomaly(d) ==
    LET current_ports == Cardinality(d.current_metrics.unique_ports)
        threshold == PortThreshold(d)
    IN IF ~d.baseline_established THEN <<>>
       ELSE IF Fires(current_ports, d.baseline.port_count, threshold)
       THEN <<Detection("port_usage_anomaly",
                        IF ZScoreAbove(current_ports, d.baseline.port_count,
                                       Times2(threshold, <<6, 5>>))
                        THEN "medium" ELSE "low",
                        current_ports, "multiple")>>
       ELSE <<>>

\* a source evaluated whatever the length of its series
EnoughSamplesAlways(counts) == TRUE

\* if len(counts) < 10: continue
EnoughSamples(counts) == ~(Len(counts) < IP_MIN_SAMPLES)

\* the sources in the order the detections are listed
IpOrder == <<"10.0.0.9", "203.0.113.45">>

DetectIpFrequencyAnomaly(d) ==
    LET threshold == d.thresholds.ip_frequency_std_multiplier
        CurrentCount(ip) == Get(d.current_metrics.ip_counts, ip, 0)
        Anomalous(ip) ==
            /\ ip \in DOMAIN d.ip_frequencies
            /\ EnoughSamples(d.ip_frequencies[ip])
            /\ Fires(CurrentCount(ip), Stats(d.ip_frequencies[ip]), threshold)
        hits == SelectSeq(IpOrder, Anomalous)
    IN [i \in DOMAIN hits |->
          Detection("ip_frequency_anomaly",
                    IF ZScoreAbove(CurrentCount(hits[i]), Stats(d.ip_frequencies[hits[i]]),
                                   Times2(threshold, <<3, 2>>))
                    THEN "high" ELSE "medium",
                    CurrentCount(hits[i]), hits[i])]

CreateAlert(anomaly, current_time) ==
    [id |-> <<"anomaly", UnixSeconds(current_time), anomaly.type>>,
     type |-> anomaly.severity,
     timestamp |-> current_time,
     source_ip |-> anomaly.ip_address,
     destination_ip |-> "multiple",
     status |-> "active",
     details |-> anomaly]

\* analyze_traffic that computes the baseline afresh on every call
AnalyzeTrafficRebase(d, traffic_data, current_time) ==
    LET d1 == UpdateMetrics(d, traffic_data, current_time)
        d2 == EstablishBaseline(d1, current_time)
        anomalies == DetectPacketRateAnomaly(d2) \o DetectConnectionAnomaly(d2)
                        \o DetectPortAnomaly(d2) \o DetectIpFrequencyAnomaly(d2)
    IN IF ~d1.baseline_established
       THEN [d |-> d2, anomalies |-> <<>>]
       ELSE [d |-> [d2 EXCEPT !.alerts = @ \o [i \in DOMAIN anomalies |->
                                                  CreateAlert(anomalies[i], current_time)]],
             anomalies |-> anomalies]

\* analyze_traffic with the detectors run on the tick that establishes the
\* baseline
AnalyzeTrafficEager(d, traffic_data, current_time) ==
    LET d1 == UpdateMetrics(d, traffic_data, current_time)
        d2 == IF d1.baseline_established THEN d1
              ELSE EstablishBaseline(d1, current_time)
        anomalies == DetectPacketRateAnomaly(d2) \o DetectConnectionAnomaly(d2)
                        \o DetectPortAnomaly(d2) \o DetectIpFrequencyAnomaly(d2)
    IN [d |-> [d2 EXCEPT !.alerts = @ \o [i \in DOMAIN anomalies |->
                                               CreateAlert(anomalies[i], current_time)]],
        anomalies |-> anomalies]

\* the value of analyze_traffic is anomalies; d is the instance afterwards
AnalyzeTraffic(d, traffic_data, current_time) ==
    LET d1 == UpdateMetrics(d, traffic_data, current_time)
        anomalies == DetectPacketRateAnomaly(d1) \o DetectConnectionAnomaly(d1)
                        \o DetectPortAnomaly(d1) \o DetectIpFrequencyAnomaly(d1)
    IN IF ~d1.baseline_established
       THEN [d |-> EstablishBaseline(d1, current_time), anomalies |-> <<>>]
       ELSE [d |-> [d1 EXCEPT !.alerts = @ \o [i \in DOMAIN anomalies |->
                                                  CreateAlert(anomalies[i], current_time)]],
             anomalies |-> anomalies]

----------------------------------------------------------------------------
(* The API server: its globals and apply_configuration *)

\* is_monitoring, the keys of ids_config the code reads, the handlers of
\* /api/monitoring/start that have passed the test of is_monitoring, and
\* the threads started so far
NewApi ==
    [is_monitoring |-> FALSE,
     ids_config |-> [enableAnomalyDetection |-> TRUE,
                     sensitivityLevel |-> "medium",
                     autoBlockEnabled |-> FALSE],
     starting |-> 0,
     workers |-> <<>>]

\* NetworkMonitor() with the thresholds of __init__
DefaultMonitor ==
    [NewMonitor(FALSE) EXCEPT !.config.port_scan_threshold = 10,
                              !.config.ddos_threshold = 100]

\* sensitivity_multipliers
SensitivityMultipliers(level) ==
    IF level = "high"
    THEN [packet_rate |-> <<2, 1>>, connection |-> <<2, 1>>, ip_frequency |-> <<3, 2>>]
    ELSE IF level = "low"
    THEN [packet_rate |-> <<4, 1>>, connection |-> <<3, 1>>, ip_frequency |-> <<5, 2>>]
    ELSE [packet_rate |-> <<3, 1>>, connection |-> <<5, 2>>, ip_frequency |-> <<2, 1>>]

\* apply_configuration that always installs the row of 'medium'
ApplyConfigurationMedium(m, d, config) ==
    [nm |-> [m EXCEPT !.config.port_scan_threshold = 10,
                      !.config.ddos_threshold = 100,
                      !.config.auto_block = config.autoBlockEnabled],
     ad |-> [d EXCEPT !.thresholds.packet_rate_std_multiplier = <<3, 1>>,
                      !.thresholds.connection_count_std_multiplier = <<5, 2>>,
                      !.thresholds.ip_frequency_std_multiplier = <<2, 1>>]]

ApplyConfiguration(m, d, config) ==
    LET level == config.sensitivityLevel
        multipliers == SensitivityMultipliers(level)
    IN [nm |-> [m EXCEPT
                  !.config.port_scan_threshold =
                      IF level = "high" THEN 5 ELSE IF level = "medium" THEN 10 ELSE 20,
                  !.config.ddos_threshold =
                      IF level = "high" THEN 50 ELSE IF level = "medium" THEN 100 ELSE 200,
                  !.config.auto_block = config.autoBlockEnabled],
        ad |-> [d EXCEPT
                  !.thresholds.packet_rate_std_multiplier = multipliers.packet_rate,
                  !.thresholds.connection_count_std_multiplier = multipliers.connection,
                  !.thresholds.ip_frequency_std_multiplier = multipliers.ip_frequency]]

----------------------------------------------------------------------------
(* analyze_packet step by step.  The thread that calls analyze_packet and   *)
(* a thread that calls block_ip or whitelist_ip share the instance without  *)
(* a lock; a call of analyze_packet is split where it tests the auto-block  *)
(* policy and where it inserts into blocked_ips, so that a call of the      *)
(* other thread may fall in between.                                        *)

\* the receiving thread between two packets
RxIdle == [pc |-> "idle", source_ip |-> "", dest_port |-> 0]

\* analyze_packet up to the call of detect_port_scan: the instance, and
\* whether the packet goes on to the detectors
Admit(m, packet, current_time) ==
    LET m1 == [m EXCEPT !.packet_count = @ + 1]
        ip_info == ParseIpHeader(packet)
    IN IF ~ip_info.ok \/ ip_info.source_ip \in m1.blocked_ips
       THEN [m |-> m1, detect |-> FALSE]
       ELSE LET source_ip == ip_info.source_ip
                times == Append(Get(m1.connection_tracker, source_ip, <<>>), current_time)
            IN IF Whitelisted(m1, source_ip)
               THEN [m |-> [m1 EXCEPT !.connection_tracker = Put(@, source_ip, times)],
                     detect |-> FALSE]
               ELSE [m |-> [m1 EXCEPT !.connection_tracker =
                               Put(@, source_ip, Recent(times, current_time, ConnectionWindow))],
                     detect |-> ip_info.protocol = PROTO_TCP
                                  /\ ParseTcpHeader(packet, ip_info.header_length).ok]

\* detect_port_scan up to the test of the auto-block policy
PortScanRule(m, source_ip, dest_port, current_time) ==
    [DetectPortScan(m, source_ip, dest_port, current_time) EXCEPT
        !.blocked_ips = m.blocked_ips]

\* detect_ddos up to the test of the auto-block policy
DdosRule(m, source_ip, current_time) ==
    [DetectDdos(m, source_ip, current_time) EXCEPT !.blocked_ips = m.blocked_ips]

\* if self.config['auto_block'] and source_ip not in self.whitelisted_ips
Policy(m, source_ip) == m.config.auto_block /\ ~Whitelisted(m, source_ip)

----------------------------------------------------------------------------
(* The state machine *)

Init ==
    /\ \E auto_block \in BOOLEAN : nm = NewMonitor(auto_block)
    /\ now = 0
    /\ ad = NewDetector(0)
    /\ api = NewApi
    /\ rx = RxIdle

\* the clock moves on
Advance ==
    /\ \E t \in Times : t > now /\ now' = t
    /\ UNCHANGED <<nm, serverVars>>

IngestFrom(S) ==
    /\ nm.packet_count < MaxPackets
    /\ \E packet \in S :
          nm' = AnalyzePacket(nm, packet, now)
    /\ UNCHANGED <<now, serverVars>>

Block ==
    /\ \E ip \in IPs :
          nm' = BlockIp(nm, ip, now).m
    /\ UNCHANGED <<now, serverVars>>

Allow ==
    /\ \E ip \in IPs :
          nm' = WhitelistIp(nm, ip, now).m
    /\ UNCHANGED <<now, serverVars>>

Ingest == IngestFrom(Packets)

\* the packets of the sliding-window runs: one destination port
WindowPackets == OtherPackets \cup {p \in TcpPackets : p.dest_port = 1}

IngestWindow == IngestFrom(WindowPackets)

Notes ==
    /\ \E ip \in IPs :
          nm' = UpdateIpNotes(nm, ip, "note", now)
    /\ UNCHANGED <<now, serverVars>>

Investigate ==
    /\ \E ip \in IPs :
          nm' = GetIpInvestigationData(nm, ip, now).m
    /\ UNCHANGED <<now, serverVars>>

NextBurst == Ingest \/ Block \/ Allow

SpecBurst == Init /\ [][NextBurst]_vars

NextClock == Advance \/ IngestWindow \/ Allow

SpecClock == Init /\ [][NextClock]_vars

----------------------------------------------------------------------------
(* The anomaly detector under ticks and configuration changes *)

Entry(ip, port, t) ==
    [timestamp |-> t, source_ip |-> ip, dest_ip |-> "10.0.0.1",
     dest_port |-> port, protocol |-> "TCP"]

\* k entries of one source to one port
Burst(ip, port, k, t) == [i \in 1..k |-> Entry(ip, port, t)]

\* two sources, two ports
Pair(t) == <<Entry("10.0.0.9", 1, t), Entry("203.0.113.45", 2, t)>>

\* the traffic_data a tick at instant t may be handed
TrafficChoices(t) ==
    {<<>>, Burst("10.0.0.9", 1, 1, t), Pair(t), Burst("10.0.0.9", 1, 4, t)}

\* the traffic of the i-th tick of a run that precedes the first state
History(pattern, i, t) ==
    IF pattern = "steady" \/ i % 2 = 1 THEN Burst("10.0.0.9", 1, 1, t)
    ELSE IF pattern = "wavy" THEN Burst("10.0.0.9", 1, 2, t)
    ELSE Pair(t)

Patterns == {"steady", "wavy", "mixed"}

Seconds(k) == k * TicksPerSec

RECURSIVE WarmRange(_, _, _, _)
\* the detector d after the ticks lo..hi of a run, one second apart
WarmRange(d, lo, hi, pattern) ==
    IF lo > hi THEN d
    ELSE IF lo = hi
    THEN AnalyzeTraffic(d, History(pattern, lo, Seconds(lo)), Seconds(lo)).d
    ELSE LET mid == (lo + hi) \div 2
             half == WarmRange(d, lo, mid, pattern)
         IN \* no tick changes start_time: the test has the first half of the
            \* run evaluated before the second half begins
            IF half.start_time = d.start_time
            THEN WarmRange(half, mid + 1, hi, pattern)
            ELSE d

\* the detector after n ticks
Warm(d, n, pattern) == WarmRange(d, 1, n, pattern)

\* samples collected before the first state: the next tick or the one
\* after it reaches the minimum of establish_baseline, or the capacity of
\* the series
WarmLengths ==
    {BASELINE_MIN_SAMPLES - 2, BASELINE_MIN_SAMPLES - 1, SERIES_MAXLEN - 1, SERIES_MAXLEN}

\* the instants of the later ticks: the last instant within the baseline
\* period, its end, and whole seconds after it
AnomalyTimes ==
    {BaselinePeriod - 1, BaselinePeriod}
        \cup {BaselinePeriod + Seconds(k) : k \in 1..ExtraTicks}

SensitivityLevels == {"high", "medium", "low"}

\* the server has run the detector for n seconds, no packet analysed
InitAnomaly ==
    /\ nm = DefaultMonitor
    /\ api = NewApi
    /\ rx = RxIdle
    /\ \E n \in WarmLengths, pattern \in Patterns :
          /\ ad = Warm(NewDetector(0), n, pattern)
          /\ now = Seconds(n)

\* anomaly_detector.analyze_traffic(traffic_data) at a later instant
Tick ==
    /\ \E t \in AnomalyTimes :
          /\ t > now
          /\ now' = t
          /\ \E traffic_data \in TrafficChoices(t) :
                ad' = AnalyzeTraffic(ad, traffic_data, t).d
    /\ UNCHANGED <<nm, api, rx>>

\* POST /api/config with {'sensitivityLevel': level}
Configure ==
    /\ \E level \in SensitivityLevels :
          LET ids_config == [api.ids_config EXCEPT !.sensitivityLevel = level]
              applied == ApplyConfiguration(nm, ad, ids_config)
          IN /\ api' = [api EXCEPT !.ids_config = ids_config]
             /\ nm' = applied.nm
             /\ ad' = applied.ad
    /\ UNCHANGED <<now, rx>>

NextAnomaly == Tick \/ Configure

SpecAnomaly == InitAnomaly /\ [][NextAnomaly]_vars

----------------------------------------------------------------------------
(* The monitoring worker, started and stopped by the API handlers.  Every   *)
(* read or write of is_monitoring is a step of its own; the threads         *)
(* interleave between the steps.  The instants of the steps are not told    *)
(* apart: the clock stays where it is.                                      *)

\* generate_mock_traffic(): entries stamped with the current time
MockTraffic(t) == Burst("203.0.113.45", 1, BatchSize, t)

\* the worker hands analyze_packet the entry itself, a dict: packet[0:20]
\* raises and parse_ip_header returns None, as for a frame with no bytes
MockPacket(entry) == Packet(0, PROTO_TCP, entry.source_ip, entry.dest_port)

\* threading.Thread(target=monitoring_worker): about to test the loop
NewWorker == [pc |-> "while", mock_traffic |-> <<>>, next |-> 1]

\* for packet in mock_traffic: analysed whether or not is_monitoring
PacketGateOpen(a) == TRUE

\* for packet in mock_traffic: if is_monitoring
PacketGate(a) == a.is_monitoring

Workers == 1..MaxWorkers

Running(i) == i <= Len(api.workers) /\ api.workers[i].pc # "done"

\* while is_monitoring: ... mock_traffic = generate_mock_traffic()
WorkerLoop(i) ==
    /\ Running(i) /\ api.workers[i].pc = "while"
    /\ IF api.is_monitoring
       THEN /\ nm.packet_count < MaxPackets
            /\ api' = [api EXCEPT !.workers[i] =
                          [pc |-> "for", mock_traffic |-> MockTraffic(now), next |-> 1]]
       ELSE api' = [api EXCEPT !.workers[i].pc = "done"]
    /\ UNCHANGED <<nm, now, ad, rx>>

\* for packet in mock_traffic: if is_monitoring
WorkerNextPacket(i) ==
    /\ Running(i) /\ api.workers[i].pc = "for"
    /\ api' = [api EXCEPT !.workers[i] =
                  IF @.next > Len(@.mock_traffic) THEN [@ EXCEPT !.pc = "anomaly"]
                  ELSE IF PacketGate(api) THEN [@ EXCEPT !.pc = "analyze"]
                  ELSE [@ EXCEPT !.next = @ + 1]]
    /\ UNCHANGED <<nm, now, ad, rx>>

\* network_monitor.analyze_packet(packet)
WorkerAnalyze(i) ==
    /\ Running(i) /\ api.workers[i].pc = "analyze"
    /\ nm' = AnalyzePacket(nm, MockPacket(api.workers[i].mock_traffic[api.workers[i].next]), now)
    /\ api' = [api EXCEPT !.workers[i].pc = "for", !.workers[i].next = @ + 1]
    /\ UNCHANGED <<now, ad, rx>>

\* if ids_config['enableAnomalyDetection']: anomaly_detector.analyze_traffic(mock_traffic)
WorkerAnomaly(i) ==
    /\ Running(i) /\ api.workers[i].pc = "anomaly"
    /\ ad' = IF api.ids_config.enableAnomalyDetection
             THEN AnalyzeTraffic(ad, api.workers[i].mock_traffic, now).d
             ELSE ad
    /\ api' = [api EXCEPT !.workers[i].pc = "sleep"]
    /\ UNCHANGED <<nm, now, rx>>

\* time.sleep(1) returns
WorkerWake(i) ==
    /\ Running(i) /\ api.workers[i].pc = "sleep"
    /\ api' = [api EXCEPT !.workers[i].pc = "while"]
    /\ UNCHANGED <<nm, now, ad, rx>>

WorkerStep(i) ==
    WorkerLoop(i) \/ WorkerNextPacket(i) \/ WorkerAnalyze(i) \/ WorkerAnomaly(i) \/ WorkerWake(i)

\* POST /api/monitoring/start: if not is_monitoring
StartTest ==
    /\ Len(api.workers) + api.starting < MaxWorkers
    /\ ~api.is_monitoring
    /\ api' = [api EXCEPT !.starting = @ + 1]
    /\ UNCHANGED <<nm, now, ad, rx>>

\* ... is_monitoring = True; monitoring_thread = threading.Thread(...); start()
StartThread ==
    /\ api.starting > 0
    /\ api' = [api EXCEPT !.starting = @ - 1,
                          !.is_monitoring = TRUE,
                          !.workers = Append(@, NewWorker)]
    /\ UNCHANGED <<nm, now, ad, rx>>

\* POST /api/monitoring/stop: is_monitoring = False
Stop ==
    /\ api' = [api EXCEPT !.is_monitoring = FALSE]
    /\ UNCHANGED <<nm, now, ad, rx>>

InitWorker ==
    /\ nm = DefaultMonitor
    /\ now = 0
    /\ ad = NewDetector(0)
    /\ api = NewApi
    /\ rx = RxIdle

NextWorker == StartTest \/ StartThread \/ Stop \/ \E i \in Workers : WorkerStep(i)

SpecWorker == InitWorker /\ [][NextWorker]_vars

\* a thread that can take a step is scheduled in the end
SpecWorkerFair ==
    InitWorker /\ [][NextWorker]_vars /\ \A i \in Workers : WF_vars(WorkerStep(i))

----------------------------------------------------------------------------
(* The receiving thread against the callers of block_ip and whitelist_ip *)

\* self.analyze_packet(packet[14:]): lines 193 to 132 of the call
RxBegin ==
    /\ rx.pc = "idle"
    /\ nm.packet_count < MaxPackets
    /\ \E packet \in Packets :
          LET admitted == Admit(nm, packet, now)
              scanned == PortScanRule(admitted.m, packet.source_ip, packet.dest_port, now)
          IN IF ~admitted.detect
             THEN nm' = admitted.m /\ rx' = RxIdle
             ELSE /\ nm' = scanned
                  /\ rx' = [pc |-> IF Len(scanned.alerts) > Len(admitted.m.alerts)
                                   THEN "scan_policy" ELSE "ddos",
                            source_ip |-> packet.source_ip,
                            dest_port |-> packet.dest_port]
    /\ UNCHANGED <<now, ad, api>>

\* the policy test of detect_port_scan or of detect_ddos
RxPolicy ==
    /\ rx.pc \in {"scan_policy", "ddos_policy"}
    /\ rx' = [rx EXCEPT !.pc =
                 IF Policy(nm, rx.source_ip)
                 THEN (IF rx.pc = "scan_policy" THEN "scan_block" ELSE "ddos_block")
                 ELSE (IF rx.pc = "scan_policy" THEN "ddos" ELSE "log")]
    /\ UNCHANGED <<nm, now, ad, api>>

\* self.blocked_ips.add(source_ip)
RxBlock ==
    /\ rx.pc \in {"scan_block", "ddos_block"}
    /\ nm' = [nm EXCEPT !.blocked_ips = @ \cup {rx.source_ip}]
    /\ rx' = [rx EXCEPT !.pc = IF rx.pc = "scan_block" THEN "ddos" ELSE "log"]
    /\ UNCHANGED <<now, ad, api>>

\* self.detect_ddos(source_ip) up to its policy test
RxDdos ==
    /\ rx.pc = "ddos"
    /\ LET flooded == DdosRule(nm, rx.source_ip, now)
       IN /\ nm' = flooded
          /\ rx' = [rx EXCEPT !.pc = IF Len(flooded.alerts) > Len(nm.alerts)
                                     THEN "ddos_policy" ELSE "log"]
    /\ UNCHANGED <<now, ad, api>>

\* the end of analyze_packet
RxLog ==
    /\ rx.pc = "log"
    /\ nm' = LogTraffic(nm, rx.source_ip, "10.0.0.1", rx.dest_port, 2, now)
    /\ rx' = RxIdle
    /\ UNCHANGED <<now, ad, api>>

\* a monitor that blocks the sources its rules report
InitRace ==
    /\ nm = NewMonitor(TRUE)
    /\ now = 0
    /\ ad = NewDetector(0)
    /\ api = NewApi
    /\ rx = RxIdle

NextRace == RxBegin \/ RxPolicy \/ RxBlock \/ RxDdos \/ RxLog \/ Block \/ Allow

SpecRace == InitRace /\ [][NextRace]_vars

----------------------------------------------------------------------------
(* Frames of every kind: the well-formed, the truncated and those whose
   first byte says another version or a header of less than five words *)

IngestAny == IngestFrom(Packets \cup MalformedPackets)

NextDecode == IngestAny \/ Block \/ Allow

SpecDecode == Init /\ [][NextDecode]_vars

----------------------------------------------------------------------------
(* PUT /api/alerts/<alert_id>/status *)

\* for alert in alerts: if alert['id'] == alert_id: every match is
\* written (the loop without its break)
SetStatusOfAll(alerts, alert_id, new_status) ==
    [i \in DOMAIN alerts |->
        IF alerts[i].id = alert_id
        THEN [alerts[i] EXCEPT !.status = new_status]
        ELSE alerts[i]]

\* for alert in alerts: if alert['id'] == alert_id:
\*     alert['status'] = new_status; break
SetStatusOfFirst(alerts, alert_id, new_status) ==
    LET hits == {i \in DOMAIN alerts : alerts[i].id = alert_id}
    IN IF hits = {} THEN alerts
       ELSE LET first == CHOOSE i \in hits : \A j \in hits : i <= j
            IN [alerts EXCEPT ![first].status = new_status]

\* both instances after update_alert_status(alert_id) with the body
\* {'status': new_status}, and the response
UpdateAlertStatus(m, d, alert_id, new_status) ==
    [nm |-> [m EXCEPT !.alerts = SetStatusOfFirst(@, alert_id, new_status)],
     ad |-> [d EXCEPT !.alerts = SetStatusOfFirst(@, alert_id, new_status)],
     response |-> [success |-> TRUE, error |-> "none"]]

Tcp == IngestFrom(TcpPackets)

\* the ids of the stored alerts
StoredIds(m, d) ==
    {m.alerts[i].id : i \in DOMAIN m.alerts} \cup {d.alerts[i].id : i \in DOMAIN d.alerts}

\* an id that no alert carries
UnknownId == <<"ps", -1>>

NewStatuses == {"resolved"}

SetAlertStatus ==
    /\ \E alert_id \in StoredIds(nm, ad) \cup {UnknownId}, new_status \in NewStatuses :
          LET updated == UpdateAlertStatus(nm, ad, alert_id, new_status)
          IN /\ nm' = updated.nm
             /\ ad' = updated.ad
    /\ UNCHANGED <<now, api, rx>>

\* the last of three ticks: the first establishes the baseline, the two
\* others fall within one second
AlarmTime == BaselinePeriod + Seconds(1) + 1

\* the detector after a quiet hour and two ticks of four packets
Alarmed ==
    LET d0 == Warm(NewDetector(0), BASELINE_MIN_SAMPLES - 1, "wavy")
        d1 == AnalyzeTraffic(d0, Burst("10.0.0.9", 1, 1, BaselinePeriod), BaselinePeriod).d
        d2 == AnalyzeTraffic(d1, Burst("10.0.0.9", 1, 4, AlarmTime - 1), AlarmTime - 1).d
    IN AnalyzeTraffic(d2, Burst("10.0.0.9", 1, 4, AlarmTime), AlarmTime).d

InitAlerts ==
    /\ nm = NewMonitor(FALSE)
    /\ now = AlarmTime
    /\ ad = Alarmed
    /\ api = NewApi
    /\ rx = RxIdle

NextAlerts == Tcp \/ SetAlertStatus

SpecAlerts == InitAlerts /\ [][NextAlerts]_vars

----------------------------------------------------------------------------
(* Ticks over entries stamped at both ends of the 60 s window *)

\* the stamps an entry handed to a tick at t may carry: older than the
\* window, exactly 60 s old, within it, of this instant, and later
WindowStamps(t) == {t - MetricsWindow - 1, t - MetricsWindow, t - MetricsWindow + 1, t, t + 1}

WindowEntries(t) == {Entry(ip, 1, ts) : ip \in IPs, ts \in WindowStamps(t)}

\* no entry, one or two
WindowTraffic(t) ==
    {<<>>} \cup {<<e>> : e \in WindowEntries(t)}
           \cup {<<e, f>> : e \in WindowEntries(t), f \in WindowEntries(t)}

\* a detector just constructed, more than a minute after the epoch
InitWindow ==
    /\ nm = DefaultMonitor
    /\ api = NewApi
    /\ rx = RxIdle
    /\ now = MetricsWindow + 1
    /\ ad = NewDetector(MetricsWindow + 1)

\* analyze_traffic(traffic_data) a second later
TickWindow ==
    /\ Len(ad.packet_rates) < MaxTicks
    /\ now' = now + Seconds(1)
    /\ \E traffic_data \in WindowTraffic(now + Seconds(1)) :
          ad' = AnalyzeTraffic(ad, traffic_data, now + Seconds(1)).d
    /\ UNCHANGED <<nm, api, rx>>

NextWindow == TickWindow

SpecWindow == InitWindow /\ [][NextWindow]_vars

----------------------------------------------------------------------------
(* Ticks over sources that come and go *)

\* the traffic_data of a tick: none, one entry of each source, two entries
\* of the second source alone
SourceChoices(t) == {<<>>, Pair(t), Burst("203.0.113.45", 2, 2, t)}

TickSources ==
    /\ \E t \in AnomalyTimes :
          /\ t > now
          /\ now' = t
          /\ \E traffic_data \in SourceChoices(t) :
                ad' = AnalyzeTraffic(ad, traffic_data, t).d
    /\ UNCHANGED <<nm, api, rx>>

NextSources == TickSources \/ Configure

SpecSources == InitAnomaly /\ [][NextSources]_vars

----------------------------------------------------------------------------
(* Every operation together *)

Next ==
    \/ Advance \/ Ingest \/ IngestAny \/ Block \/ Allow \/ Notes \/ Investigate
    \/ Tick \/ TickWindow \/ TickSources \/ Configure \/ SetAlertStatus
    \/ StartTest \/ StartThread \/ Stop \/ \E i \in Workers : WorkerStep(i)
    \/ RxBegin \/ RxPolicy \/ RxBlock \/ RxDdos \/ RxLog

Spec == Init /\ [][Next]_vars

----------------------------------------------------------------------------
(* Vocabulary of the properties *)

\* the step is analyze_packet(p)
Analyzed(p) ==
    /\ nm'.packet_count = nm.packet_count + 1
    /\ nm' = AnalyzePacket(nm, p, now)
    /\ now' = now

\* the alerts with this title stored for this source
AlertsOf(m, title, ip) ==
    Cardinality({i \in DOMAIN m.alerts :
                    m.alerts[i].title = title /\ m.alerts[i].source_ip = ip})

PortsOf(m, ip) == Get(m.port_scan_tracker, ip, {})

TimesOf(m, ip) == Get(m.connection_tracker, ip, <<>>)

HasDossier(m, ip) == ip \in DOMAIN m.ip_investigation_data

\* under detection: neither blocklisted nor allowlisted
Monitored(m, ip) == ip \notin m.blocked_ips /\ ip \notin m.whitelisted_ips

\* the instants a later call may read
LaterTimes == {t \in Times : t >= now}

\* the instant a tick reads: the clock after a step that moved it
TickInstants == IF now' > now THEN {now'} ELSE {}

\* what analyze_traffic(traffic_data) at the instant t makes of the detector
\* and returns
TickOf(traffic_data, t) == {AnalyzeTraffic(ad, traffic_data, t)}

\* the detections of one type in a list of detections
OfType(anomalies, type) ==
    {i \in DOMAIN anomalies : anomalies[i].type = type}

\* the alerts of one type the detector has stored
AnomalyAlerts(d, type) ==
    {i \in DOMAIN d.alerts : d.alerts[i].details.type = type}

\* the last n entries of s, all of s when it is shorter
LastN(s, n) == IF Len(s) > n THEN SubSeq(s, Len(s) - n + 1, Len(s)) ELSE s

\* the entries of traffic_data stamped within 60 s before the instant t
Counted(traffic_data, t) ==
    {i \in DOMAIN traffic_data : t - traffic_data[i].timestamp < MetricsWindow}

----------------------------------------------------------------------------
(* Properties *)

\* C1: after any sequence of block, allow and packet-ingest operations
\* (auto-blocking included) no address is on both the allowlist and the
\* blocklist.
C1_ListsDisjoint == nm.whitelisted_ips \cap nm.blocked_ips = {}

\* an address that a rule auto-blocked and that was allowlisted afterwards
C1_Witness ==
    \E ip \in nm.whitelisted_ips :
        /\ nm.config.auto_block
        /\ AlertsOf(nm, "Port Scan Detected", ip) > 0

\* C2: after a pipeline step at time now, every timestamp t kept for a
\* source satisfies now - t < 60 s, allowlisted sources included.  Stated
\* for the source of the packet the step processed, the one whose
\* timestamps the step rewrites.
C2_RecentTimesWithinWindow ==
    [][\A p \in Packets :
          (ParseIpHeader(p).ok /\ p.source_ip \notin nm.blocked_ips /\ Analyzed(p))
          => \A t \in Range(TimesOf(nm', p.source_ip)) : now - t < ConnectionWindow]_vars

\* C3: a TCP packet from a source under detection emits a high-severity
\* port-scan alert for that source if and only if the source's port set,
\* with the packet's destination port inserted, is larger than
\* port_scan_threshold; so a source has no port-scan alert before its port
\* set exceeds the threshold, and every packet after that emits another.
C3_PortScanIffAboveThreshold ==
    /\ [](\A ip \in IPs :
             AlertsOf(nm, "Port Scan Detected", ip) > 0
             => Cardinality(PortsOf(nm, ip)) > nm.config.port_scan_threshold)
    /\ [][\A p \in TcpPackets :
             (Monitored(nm, p.source_ip) /\ Analyzed(p))
             => LET ip == p.source_ip
                    ports == PortsOf(nm, ip) \cup {p.dest_port}
                    before == AlertsOf(nm, "Port Scan Detected", ip)
                    after == AlertsOf(nm', "Port Scan Detected", ip)
                IN /\ PortsOf(nm', ip) = ports
                   /\ IF Cardinality(ports) > nm.config.port_scan_threshold
                      THEN /\ after = before + 1
                           /\ \E i \in DOMAIN nm'.alerts :
                                 /\ i > Len(nm.alerts)
                                 /\ nm'.alerts[i].title = "Port Scan Detected"
                                 /\ nm'.alerts[i].source_ip = ip
                                 /\ nm'.alerts[i].type = "high"
                      ELSE after = before]_vars

\* a source whose packets kept emitting port-scan alerts above the threshold
C3_Witness ==
    \E ip \in IPs :
        /\ Monitored(nm, ip)
        /\ Cardinality(PortsOf(nm, ip)) = nm.config.port_scan_threshold + 1
        /\ AlertsOf(nm, "Port Scan Detected", ip) = 2

\* C4: a TCP packet arriving at time now from a source under detection
\* emits a high-severity flood alert if and only if the timestamps t of
\* the source, the packet's own included, with now - t < 1 s number more
\* than ddos_threshold.
C4_FloodIffAboveThreshold ==
    [][\A p \in TcpPackets :
          (Monitored(nm, p.source_ip) /\ Analyzed(p))
          => LET ip == p.source_ip
                 times == Append(TimesOf(nm, ip), now)
                 recent == Cardinality({i \in DOMAIN times : now - times[i] < DdosWindow})
                 before == AlertsOf(nm, "DDoS Attack Detected", ip)
                 after == AlertsOf(nm', "DDoS Attack Detected", ip)
             IN IF recent > nm.config.ddos_threshold
                THEN /\ after = before + 1
                     /\ nm'.alerts[Len(nm'.alerts)].title = "DDoS Attack Detected"
                     /\ nm'.alerts[Len(nm'.alerts)].source_ip = ip
                     /\ nm'.alerts[Len(nm'.alerts)].type = "high"
                ELSE after = before]_vars

\* a flood alert raised while the source also had a packet a full second old
C4_Witness ==
    \E ip \in IPs :
        /\ AlertsOf(nm, "DDoS Attack Detected", ip) > 0
        /\ \E i \in DOMAIN nm.alerts, t \in Range(TimesOf(nm, ip)) :
              /\ nm.alerts[i].source_ip = ip
              /\ nm.alerts[i].timestamp - t >= DdosWindow

\* C5: while a source is allowlisted no packet from it emits an alert or
\* puts it on the blocklist, whatever auto_block and its traffic are.
C5_AllowlistedNeverAlerts ==
    [][\A p \in Packets :
          (p.source_ip \in nm.whitelisted_ips /\ Analyzed(p))
          => /\ nm'.alerts = nm.alerts
             /\ nm'.suspicious_packets = nm.suspicious_packets
             /\ nm'.blocked_ips = nm.blocked_ips]_vars

\* auto_block on, an allowlisted source with more packets recorded than
\* either threshold, none of them seen while it was under detection, and
\* no alert at all
C5_Witness ==
    \E ip \in nm.whitelisted_ips :
        /\ nm.config.auto_block
        /\ Len(TimesOf(nm, ip)) > nm.config.port_scan_threshold
        /\ Len(TimesOf(nm, ip)) > nm.config.ddos_threshold
        /\ ip \notin DOMAIN nm.port_scan_tracker
        /\ nm.alerts = <<>>
        /\ nm.blocked_ips = {}

\* C6: a TCP packet from an allowlisted source still records its
\* destination port in the source's dossier.
C6_AllowlistedPortsRecorded ==
    [][\A p \in TcpPackets :
          (p.source_ip \in nm.whitelisted_ips /\ Analyzed(p))
          => \/ p.dest_port \in PortsOf(nm', p.source_ip)
             \/ /\ HasDossier(nm', p.source_ip)
                /\ p.dest_port \in Range(nm'.ip_investigation_data[p.source_ip].ports_accessed)]_vars

\* C7: block(a) with a on the allowlist returns false and changes nothing.
C7_BlockAllowlistedRejected ==
    \A ip \in nm.whitelisted_ips :
        BlockIp(nm, ip, now) = [m |-> nm, ret |-> FALSE]

\* an allowlisted address with a dossier, classified benign
C7_Witness ==
    \E ip \in nm.whitelisted_ips :
        /\ HasDossier(nm, ip)
        /\ nm.ip_investigation_data[ip].classification = "benign"

\* C8: allow(a); block(a) ends in the state allow(a) alone ends in, and
\* block(a); allow(a) ends with a allowlisted and not blocked.
C8_AllowBlockRoundTrip ==
    \A ip \in IPs : \A t1 \in LaterTimes : \A t2 \in {t \in LaterTimes : t >= t1} :
        LET allowed == WhitelistIp(nm, ip, t1).m
            blocked == BlockIp(nm, ip, t1).m
            after == WhitelistIp(blocked, ip, t2).m
        IN /\ BlockIp(allowed, ip, t2) = [m |-> allowed, ret |-> FALSE]
           /\ ip \in after.whitelisted_ips
           /\ ip \notin after.blocked_ips

\* an address with a dossier that is on the blocklist
C8_Witness ==
    \E ip \in nm.blocked_ips :
        /\ HasDossier(nm, ip)
        /\ nm.ip_investigation_data[ip].classification = "malicious"

\* C9: block(a); block(a) ends in the state one block(a) ends in, and
\* allow(a); allow(a) in the state one allow(a) ends in.
C9_BlockAllowIdempotent ==
    \A ip \in IPs : \A t1 \in LaterTimes : \A t2 \in {t \in LaterTimes : t >= t1} :
        /\ BlockIp(BlockIp(nm, ip, t1).m, ip, t2).m = BlockIp(nm, ip, t1).m
        /\ WhitelistIp(WhitelistIp(nm, ip, t1).m, ip, t2).m = WhitelistIp(nm, ip, t1).m

\* an address under detection that has a dossier: both calls act on it
C9_Witness ==
    \E ip \in IPs :
        /\ Monitored(nm, ip)
        /\ HasDossier(nm, ip)

\* C10: when a rule fires for a source that is not allowlisted and
\* auto_block is on, the source is on the blocklist once the packet is
\* processed; with auto_block off no packet changes the blocklist.
C10_AutoBlockPolicy ==
    [][\A p \in Packets :
          Analyzed(p)
          => /\ (/\ nm.config.auto_block
                 /\ Len(nm'.alerts) > Len(nm.alerts)
                 /\ p.source_ip \notin nm.whitelisted_ips)
                => p.source_ip \in nm'.blocked_ips
             /\ ~nm.config.auto_block => nm'.blocked_ips = nm.blocked_ips]_vars

\* a source a flood alert put on the blocklist
C10_Witness ==
    \E ip \in nm.blocked_ips :
        /\ nm.config.auto_block
        /\ AlertsOf(nm, "DDoS Attack Detected", ip) > 0
        /\ AlertsOf(nm, "Port Scan Detected", ip) = 0

\* C11: a packet whose source is on the blocklist is dropped before
\* analysis: the timestamps, the port sets, the dossiers, the traffic log,
\* the alerts and both lists stay as they are; only the packet counter
\* moves.
C11_BlockedPacketDropped ==
    [][\A p \in Packets :
          (ParseIpHeader(p).ok /\ p.source_ip \in nm.blocked_ips /\ Analyzed(p))
          => nm' = [nm EXCEPT !.packet_count = @ + 1]]_vars

\* a blocklisted source with timestamps and ports on record, and every
\* source's packets counted: more packets were handed in than were recorded
C11_Witness ==
    \E ip \in nm.blocked_ips :
        /\ Len(TimesOf(nm, ip)) > 0
        /\ PortsOf(nm, ip) # {}
        /\ nm.whitelisted_ips = {}
        /\ nm.packet_count = MaxPackets
        /\ \A other \in IPs \ {ip} : other \notin DOMAIN nm.connection_tracker
        /\ Len(TimesOf(nm, ip)) < nm.packet_count

\* C12: the baseline becomes present only on a tick at which the baseline
\* period has elapsed since start_time and the packet-rate series, the
\* tick's sample included, holds at least 50 samples, so a baseline that
\* is present was computed from at least 50 samples after the period; a
\* tick made while the baseline is absent returns no detection and stores
\* no alert.
C12_BaselineOnlyWhenReady ==
    /\ [](ad.baseline_established
            => /\ now - ad.start_time >= BaselinePeriod
               /\ ad.baseline.packet_rate.n >= BASELINE_MIN_SAMPLES)
    /\ [][\A t \in TickInstants :
            /\ (~ad.baseline_established /\ ad'.baseline_established)
                  => /\ t - ad.start_time >= BaselinePeriod
                     /\ Len(ad'.packet_rates) >= BASELINE_MIN_SAMPLES
            /\ ~ad.baseline_established
                  => /\ ad'.alerts = ad.alerts
                     /\ \A traffic_data \in TrafficChoices(t) :
                           \A tick \in TickOf(traffic_data, t) :
                               ad' = tick.d => tick.anomalies = <<>>]_vars

\* the baseline established at the end of the period on the 50th sample,
\* a burst of four packets among the samples, and no alert stored
C12_Witness ==
    /\ ad.baseline_established
    /\ now = BaselinePeriod
    /\ Len(ad.packet_rates) = BASELINE_MIN_SAMPLES
    /\ ad.current_metrics.packet_rate = 4
    /\ ad.alerts = <<>>

\* C13: once the baseline is present it stays present and its six fields
\* keep their values on every later step, while each tick goes on
\* appending its sample to the series.
C13_BaselineFrozen ==
    [][ad.baseline_established =>
          /\ ad'.baseline_established
          /\ ad'.baseline = ad.baseline
          /\ now' > now =>
                ad'.packet_rates =
                    LastN(Append(ad.packet_rates, ad'.current_metrics.packet_rate),
                          SERIES_MAXLEN)]_vars

\* a tick after the baseline was established: the series have moved away
\* from the statistics the baseline holds
C13_Witness ==
    /\ ad.baseline_established
    /\ now > BaselinePeriod
    /\ ~StdIsZero(ad.baseline.packet_rate)
    /\ Stats(ad.packet_rates) # ad.baseline.packet_rate
    /\ Stats(ad.port_distributions) # ad.baseline.port_count

\* C14: every series holds at most 100 samples, and a tick leaves in each
\* series the last (at most 100) of its samples followed by the tick's
\* own: for the three global series always, for the series of a source
\* when the tick counted a packet of that source.
C14_SeriesBounded ==
    /\ [](/\ Len(ad.packet_rates) <= 100
          /\ Len(ad.connection_counts) <= 100
          /\ Len(ad.port_distributions) <= 100
          /\ \A ip \in DOMAIN ad.ip_frequencies : Len(ad.ip_frequencies[ip]) <= 100)
    /\ [][\A t \in TickInstants : \A traffic_data \in TrafficChoices(t) :
            \A tick \in TickOf(traffic_data, t) :
              ad' = tick.d =>
                LET counted == Counted(traffic_data, t)
                    ports == {traffic_data[i].dest_port : i \in counted}
                    CountOf(ip) ==
                        Cardinality({i \in counted : traffic_data[i].source_ip = ip})
                IN /\ tick.d.packet_rates =
                          LastN(Append(ad.packet_rates, Cardinality(counted)), 100)
                   /\ tick.d.connection_counts =
                          LastN(Append(ad.connection_counts, Cardinality(counted)), 100)
                   /\ tick.d.port_distributions =
                          LastN(Append(ad.port_distributions, Cardinality(ports)), 100)
                   /\ \A ip \in IPs :
                          Get(tick.d.ip_frequencies, ip, <<>>) =
                              IF CountOf(ip) > 0
                              THEN LastN(Append(Get(ad.ip_frequencies, ip, <<>>),
                                                CountOf(ip)), 100)
                              ELSE Get(ad.ip_frequencies, ip, <<>>)]_vars

\* full series whose two newest samples are bursts of four packets, which
\* only the later ticks bring: the second of them evicted a sample
C14_Witness ==
    /\ Len(ad.packet_rates) = 100
    /\ ad.packet_rates[99] = 4 /\ ad.packet_rates[100] = 4
    /\ "10.0.0.9" \in DOMAIN ad.ip_frequencies
    /\ Len(ad.ip_frequencies["10.0.0.9"]) = 100
    /\ ad.ip_frequencies["10.0.0.9"][100] = 4

C17_Row(level) ==
    IF level = "high"
    THEN [packet_rate |-> <<2, 1>>, connection |-> <<2, 1>>, ip_frequency |-> <<3, 2>>,
          port_scan_threshold |-> 5, ddos_threshold |-> 50]
    ELSE IF level = "medium"
    THEN [packet_rate |-> <<3, 1>>, connection |-> <<5, 2>>, ip_frequency |-> <<2, 1>>,
          port_scan_threshold |-> 10, ddos_threshold |-> 100]
    ELSE [packet_rate |-> <<4, 1>>, connection |-> <<3, 1>>, ip_frequency |-> <<5, 2>>,
          port_scan_threshold |-> 20, ddos_threshold |-> 200]

\* two multipliers are the same number
SameNumber(a, b) == a[1] * b[2] = b[1] * a[2]

\* C17: with the sensitivity set to high, medium or low the three anomaly
\* multipliers and the two rule thresholds are those of the level's row of
\* the table, and a tick detects the port count exactly when its z-score
\* is above the connection multiplier of that row.
C17_SensitivityTable ==
    /\ [](LET row == C17_Row(api.ids_config.sensitivityLevel)
          IN /\ SameNumber(ad.thresholds.packet_rate_std_multiplier, row.packet_rate)
             /\ SameNumber(ad.thresholds.connection_count_std_multiplier, row.connection)
             /\ SameNumber(ad.thresholds.ip_frequency_std_multiplier, row.ip_frequency)
             /\ nm.config.port_scan_threshold = row.port_scan_threshold
             /\ nm.config.ddos_threshold = row.ddos_threshold)
    /\ [][\A t \in TickInstants : \A traffic_data \in TrafficChoices(t) :
            \A tick \in IF ad.baseline_established THEN TickOf(traffic_data, t) ELSE {} :
              ad' = tick.d =>
                 (OfType(tick.anomalies, "port_usage_anomaly") # {}
                    <=> /\ ~StdIsZero(ad.baseline.port_count)
                        /\ ZScoreAbove(Cardinality(tick.d.current_metrics.unique_ports),
                                        ad.baseline.port_count,
                                        C17_Row(api.ids_config.sensitivityLevel).connection))]_vars

\* the sensitivity was set to high, and a port detection is stored that
\* the multiplier 2 of that row admits and the multiplier 2.5 of the
\* default row does not
C17_Witness ==
    /\ api.ids_config.sensitivityLevel = "high"
    /\ nm.config.port_scan_threshold = 5
    /\ \E i \in AnomalyAlerts(ad, "port_usage_anomaly") :
          /\ ad.alerts[i].timestamp = now
          /\ ~ZScoreAbove(ad.alerts[i].details.current_value, ad.baseline.port_count, <<5, 2>>)

\* the workers inside a packet analysis or an anomaly tick
InPipeline ==
    {i \in Workers : Running(i) /\ api.workers[i].pc \in {"analyze", "anomaly"}}

\* C18: whatever the interleaving of start and stop calls, at most one
\* worker is running the pipeline: no two workers are inside a packet
\* analysis or an anomaly tick at the same time.
C18_OneWorkerInPipeline == Cardinality(InPipeline) <= 1

\* every worker thread has left monitoring_worker
AllExited == \A i \in Workers : ~Running(i)

\* the step has worker i begin the analysis of a packet
StartsPacket(i) ==
    /\ Running(i)
    /\ api.workers[i].pc = "for"
    /\ i <= Len(api'.workers)
    /\ api'.workers[i].pc = "analyze"

\* C20: once stop has cleared is_monitoring and until a later start sets
\* it again, no worker begins the analysis of a further packet (the one
\* packet already handed to analyze_packet is finished), and under fair
\* scheduling of the workers every worker exits, unless a later start
\* intervenes.
C20_StopDrainsWorker ==
    /\ [][\A i \in Workers : StartsPacket(i) => api.is_monitoring]_vars
    /\ (~api.is_monitoring) ~> (api.is_monitoring \/ AllExited)

\* stopped after the first packet of a batch of two: the worker skipped
\* the second packet and has exited
C20_Witness ==
    /\ ~api.is_monitoring
    /\ Len(api.workers) = 1
    /\ api.workers[1].pc = "done"
    /\ api.workers[1].next > Len(api.workers[1].mock_traffic)
    /\ Len(api.workers[1].mock_traffic) >= 2
    /\ nm.packet_count = 1

\* C19: the calls of block_ip and whitelist_ip are serialized with the
\* processing of a packet, so that what is left when the packet is done is
\* what some order of whole calls leaves: an address is not on the
\* allowlist and on the blocklist, as after every sequence of whole calls.
C19_SerialOutcome ==
    rx.pc = "idle" => nm.whitelisted_ips \cap nm.blocked_ips = {}

\* a packet that analyze_packet neither fails to decode nor drops for a
\* blocklisted source
Accepted(m, p) ==
    /\ ParseIpHeader(p).ok
    /\ p.source_ip \notin m.blocked_ips

\* C21: from the first accepted packet of a source on, the lookup of its
\* dossier returns a dossier (never None), and a dossier, once there, is
\* never deleted.
C21_DossierFromFirstPacket ==
    [][/\ \A p \in Packets :
             Accepted(nm, p) /\ Analyzed(p)
                => GetIpInvestigationData(nm', p.source_ip, now').found
       /\ \A ip \in IPs :
             GetIpInvestigationData(nm, ip, now).found
                => GetIpInvestigationData(nm', ip, now').found]_vars

\* the classification written in the dossier of the address, "none" where
\* the address has no dossier
ClassificationOf(m, ip) ==
    IF HasDossier(m, ip) THEN m.ip_investigation_data[ip].classification
    ELSE "none"

\* C22: an address whose dossier says malicious is on the blocklist (and
\* so not on the allowlist): allowlisting it afterwards takes it off the
\* blocklist and rewrites the classification, so that it is then neither
\* malicious nor blocked.
C22_MaliciousOnBlocklist ==
    \A ip \in IPs :
       /\ ClassificationOf(nm, ip) = "malicious"
             => ip \in nm.blocked_ips /\ ip \notin nm.whitelisted_ips
       /\ ip \in nm.whitelisted_ips
             => ClassificationOf(nm, ip) # "malicious" /\ ip \notin nm.blocked_ips

\* a source reported by a rule, then blocked: its dossier says malicious
C22_Witness ==
    \E ip \in IPs :
       /\ ClassificationOf(nm, ip) = "malicious"
       /\ ip \in nm.blocked_ips
       /\ AlertsOf(nm, "Port Scan Detected", ip) > 0

\* a source blocked with a dossier, then allowlisted: benign, off the
\* blocklist
C22_WitnessAllowlisted ==
    \E ip \in IPs :
       /\ ClassificationOf(nm, ip) = "benign"
       /\ ip \in nm.whitelisted_ips
       /\ \E i \in DOMAIN nm.ip_investigation_data[ip].activities :
             nm.ip_investigation_data[ip].activities[i].action = "IP Blocked"

\* the integer counters of the instance
Counters == {"packet_count", "suspicious_packets"}

\* no alert, and no change to a dossier, a port set, the recent arrival
\* times, the traffic log or an access list
Untouched(m, m2) ==
    /\ m2.alerts = m.alerts
    /\ m2.ip_investigation_data = m.ip_investigation_data
    /\ m2.port_scan_tracker = m.port_scan_tracker
    /\ m2.connection_tracker = m.connection_tracker
    /\ m2.traffic_history = m.traffic_history
    /\ m2.blocked_ips = m.blocked_ips
    /\ m2.whitelisted_ips = m.whitelisted_ips

\* C23: a frame of fewer than 20 bytes is dropped: no alert and no change
\* to a dossier, port set, recent arrival times, traffic log or access
\* list; and a decode-error counter is bumped: a counter of the instance
\* that goes up by one for this frame and stays for a frame that decodes.
C23_DecodeFailureCounted ==
    [][\A p \in TruncatedPackets :
          Analyzed(p) =>
             /\ Untouched(nm, nm')
             /\ \E c \in Counters :
                   /\ nm'[c] = nm[c] + 1
                   /\ \A q \in Packets :
                         ParseIpHeader(q).ok => AnalyzePacket(nm, q, now)[c] = nm[c]]_vars

\* the part of C23 that the program keeps: the frame changes nothing but
\* the count of all packets
C23_DecodeFailureDropped ==
    [][\A p \in TruncatedPackets :
          Analyzed(p) => nm' = [nm EXCEPT !.packet_count = @ + 1]]_vars

\* C24: a packet whose version is not 4, or whose IHL is less than 5,
\* fails to decode: it is counted and otherwise leaves the instance as it
\* was (no dossier, no rule, no traffic log).
C24_MalformedRejected ==
    [][\A p \in MalformedPackets :
          Analyzed(p) =>
             /\ ~ParseIpHeader(p).ok
             /\ Untouched(nm, nm')]_vars

\* C25: update_alert_status with an id that no stored alert carries
\* answers not_found, and leaves every stored alert as it was.
C25_UnknownIdNotFound ==
    \A new_status \in NewStatuses :
       LET updated == UpdateAlertStatus(nm, ad, UnknownId, new_status)
       IN /\ UnknownId \notin StoredIds(nm, ad)
          /\ ~updated.response.success
          /\ updated.response.error = "not_found"
          /\ updated.nm.alerts = nm.alerts
          /\ updated.ad.alerts = ad.alerts

\* the part of C25 that the program keeps: an unknown id changes nothing
C25_UnknownIdNoChange ==
    \A new_status \in NewStatuses :
       LET updated == UpdateAlertStatus(nm, ad, UnknownId, new_status)
       IN /\ UnknownId \notin StoredIds(nm, ad)
          /\ updated.nm = nm
          /\ updated.ad = ad

\* of the alerts before and after, only the first that carries the id has
\* changed, and only in its status
OnlyFirstSet(before, after, alert_id, new_status) ==
    /\ Len(after) = Len(before)
    /\ \A i \in DOMAIN before :
          after[i] = IF /\ before[i].id = alert_id
                        /\ \A j \in 1..(i - 1) : before[j].id # alert_id
                     THEN [before[i] EXCEPT !.status = new_status]
                     ELSE before[i]

\* the step is update_alert_status(alert_id) with this status
StatusSet(alert_id, new_status) ==
    /\ nm' = UpdateAlertStatus(nm, ad, alert_id, new_status).nm
    /\ ad' = UpdateAlertStatus(nm, ad, alert_id, new_status).ad
    /\ UNCHANGED <<now, api, rx>>

\* the first of two alerts with one id has been set, the second not
FirstOfTwoSet(alerts) ==
    \E i, j \in DOMAIN alerts :
       /\ i < j
       /\ alerts[i].id = alerts[j].id
       /\ alerts[i].status = "resolved"
       /\ alerts[j].status = "active"

\* C30: where several alerts carry one id, update_alert_status changes
\* the status of the first of them in the list of the rule alerts and of
\* the first of them in the list of the anomaly alerts, and of no other.
C30_OnlyFirstMatch ==
    [][\A alert_id \in StoredIds(nm, ad), new_status \in NewStatuses :
          StatusSet(alert_id, new_status) =>
             /\ OnlyFirstSet(nm.alerts, nm'.alerts, alert_id, new_status)
             /\ OnlyFirstSet(ad.alerts, ad'.alerts, alert_id, new_status)]_vars

\* two rule alerts of one second and two anomaly alerts of one second and
\* type, the first of each resolved
C30_Witness ==
    /\ FirstOfTwoSet(nm.alerts)
    /\ FirstOfTwoSet(ad.alerts)

\* C26: a packet from an allowlisted source raises no alert, and is
\* counted and logged: the count of all packets goes up by one, the
\* arrival time is appended to the recent arrival times of the source,
\* and a TCP packet is appended to the traffic log.
C26_AllowlistedCountedAndLogged ==
    [][\A p \in Packets :
          Accepted(nm, p) /\ p.source_ip \in nm.whitelisted_ips /\ Analyzed(p) =>
             /\ nm'.alerts = nm.alerts
             /\ nm'.packet_count = nm.packet_count + 1
             /\ TimesOf(nm', p.source_ip) = Append(TimesOf(nm, p.source_ip), now)
             /\ p \in TcpPackets =>
                   /\ Len(nm'.traffic_history) = Len(nm.traffic_history) + 1
                   /\ nm'.traffic_history[Len(nm'.traffic_history)].source_ip = p.source_ip
                   /\ nm'.traffic_history[Len(nm'.traffic_history)].dest_port = p.dest_port]_vars

\* the part of C26 that the program keeps: no alert, counted, time kept
C26_AllowlistedCounted ==
    [][\A p \in Packets :
          Accepted(nm, p) /\ p.source_ip \in nm.whitelisted_ips /\ Analyzed(p) =>
             /\ nm'.alerts = nm.alerts
             /\ nm'.packet_count = nm.packet_count + 1
             /\ TimesOf(nm', p.source_ip) = Append(TimesOf(nm, p.source_ip), now)]_vars

\* the entries stamped from 60 s before t up to t, both ends included
InClosedWindow(traffic_data, t) ==
    {i \in DOMAIN traffic_data :
        /\ t - MetricsWindow <= traffic_data[i].timestamp
        /\ traffic_data[i].timestamp <= t}

\* C27: on a tick at t, packet_rate and connection_count are both the
\* number of entries stamped from t - 60 s to t, the entry exactly 60 s
\* old included and the entry stamped later than t excluded; so the two
\* are equal and the two series are identical.
C27_ClosedWindowCount ==
    [][\A t \in TickInstants : \A traffic_data \in WindowTraffic(t) :
          \A tick \in TickOf(traffic_data, t) :
             ad' = tick.d =>
                /\ ad'.current_metrics.packet_rate
                      = Cardinality(InClosedWindow(traffic_data, t))
                /\ ad'.current_metrics.connection_count
                      = Cardinality(InClosedWindow(traffic_data, t))
                /\ ad'.connection_counts = ad'.packet_rates]_vars

\* the part of C27 that the program keeps: the two counts are one number
\* and the two series one series
C27_CountsEqual ==
    /\ ad.current_metrics.connection_count = ad.current_metrics.packet_rate
    /\ ad.connection_counts = ad.packet_rates

\* C28: the tick that establishes the baseline returns no detection and
\* stores no alert, whatever its metrics; from the next tick on, a packet
\* rate outside the band of the baseline is detected and its alert stored.
C28_BaselineTickSilent ==
    [][\A t \in TickInstants : \A traffic_data \in TrafficChoices(t) :
          \A tick \in TickOf(traffic_data, t) :
             ad' = tick.d =>
                /\ (~ad.baseline_established /\ ad'.baseline_established)
                      => /\ tick.anomalies = <<>>
                         /\ ad'.alerts = ad.alerts
                /\ (/\ ad.baseline_established
                    /\ Fires(ad'.current_metrics.packet_rate, ad.baseline.packet_rate,
                             ad.thresholds.packet_rate_std_multiplier))
                      => /\ OfType(tick.anomalies, "packet_rate_anomaly") # {}
                         /\ Len(ad'.alerts) > Len(ad.alerts)]_vars

\* the baseline has just been established by a tick whose packet rate is
\* outside its band, and no alert is stored
C28_Witness ==
    /\ ad.baseline_established
    /\ now = BaselinePeriod
    /\ Fires(ad.current_metrics.packet_rate, ad.baseline.packet_rate,
             ad.thresholds.packet_rate_std_multiplier)
    /\ Len(ad.packet_rates) >= BASELINE_MIN_SAMPLES
    /\ ad.alerts = <<>>

\* the series kept for the source, empty where none is kept
SeriesOf(d, ip) == Get(d.ip_frequencies, ip, <<>>)

LoggedWithin(m, ip, t) ==
    {i \in DOMAIN m.traffic_history :
        /\ m.traffic_history[i].source_ip = ip
        /\ t - m.traffic_history[i].timestamp < DdosWindow}

\* C31: a packet that is not TCP, from a source not on the blocklist, has
\* its arrival time appended to the recent arrival times of the source and
\* does nothing else: no rule runs (no alert, no suspicious packet, no
\* port, no dossier, no block) and the traffic log is left alone; and a
\* TCP packet from a source under detection raises the flood alert exactly
\* when the arrival times kept for the source within the last second, those
\* of its packets that were not TCP among them, number more than
\* ddos_threshold with the packet's own.
C31_NonTcpCountsForFlood ==
    [][/\ \A p \in OtherPackets :
             Accepted(nm, p) /\ Analyzed(p) =>
                LET times == TimesOf(nm', p.source_ip)
                IN /\ Len(times) > 0
                   /\ times[Len(times)] = now
                   /\ \A i \in 1..(Len(times) - 1) : times[i] \in Range(TimesOf(nm, p.source_ip))
                   /\ nm'.alerts = nm.alerts
                   /\ nm'.suspicious_packets = nm.suspicious_packets
                   /\ nm'.port_scan_tracker = nm.port_scan_tracker
                   /\ nm'.ip_investigation_data = nm.ip_investigation_data
                   /\ nm'.blocked_ips = nm.blocked_ips
                   /\ nm'.traffic_history = nm.traffic_history
       /\ \A p \in TcpPackets :
             Monitored(nm, p.source_ip) /\ Analyzed(p) =>
                LET ip == p.source_ip
                    kept == {i \in DOMAIN TimesOf(nm, ip) : now - TimesOf(nm, ip)[i] < DdosWindow}
                IN AlertsOf(nm', "DDoS Attack Detected", ip)
                      > AlertsOf(nm, "DDoS Attack Detected", ip)
                   <=> Cardinality(kept) + 1 > nm.config.ddos_threshold]_vars

\* a flood alert of this instant for a source whose entries in the traffic
\* log of the last second do not exceed the threshold: the packets that
\* were not TCP made the count
C31_Witness ==
    \E ip \in IPs :
       /\ \E i \in DOMAIN nm.alerts :
             /\ nm.alerts[i].title = "DDoS Attack Detected"
             /\ nm.alerts[i].source_ip = ip
             /\ nm.alerts[i].timestamp = now
       /\ LoggedWithin(nm, ip, now) # {}
       /\ Cardinality(LoggedWithin(nm, ip, now)) <= nm.config.ddos_threshold
       /\ Cardinality({i \in DOMAIN TimesOf(nm, ip) : now - TimesOf(nm, ip)[i] < DdosWindow})
             > nm.config.ddos_threshold

====
